---- MODULE Spec2Model ----
(***************************************************************************)
(* A model of seller.py: the synchronisation of a spreadsheet of watch     *)
(* remnants with the product catalogue of a marketplace.                   *)
(*                                                                         *)
(* Text is modelled as a sequence of one-character strings, so that        *)
(* str(), int(), str.split and re.sub are computed character by character. *)
(* A spreadsheet cell is a record [t, v]: t = "str" with v a text, or      *)
(* t = "int" with v an integer (a numeric cell as the spreadsheet reader   *)
(* delivers it).                                                           *)
(***************************************************************************)
EXTENDS Integers, Sequences, FiniteSets, TLC

VARIABLES
    pc,               \* position of the running procedure
    products,         \* the products the marketplace holds (server side)
    remnants_file,    \* the rows of the remote spreadsheet (server side)
    last_id,          \* get_offer_ids: the cursor sent with the next request
    product_list,     \* get_offer_ids: the products accumulated so far
    offer_ids,        \* the list object the caller holds and passes on
    given_offer_ids,  \* the content of offer_ids when get_offer_ids returned it
    watch_remnants,   \* the records download_stock returned
    stocks,           \* the result of create_stocks
    prices,           \* the result of create_prices
    pending,          \* the batches list(divide(...)) built, not yet sent
    uploaded_stocks,  \* the stock batches the marketplace accepted, in order
    uploaded_prices,  \* the price batches the marketplace accepted, in order
    log,              \* every step main has started, in order
    outcome,          \* "running", "ok", "handled" or "propagated"
    printed,          \* what the except clauses printed
    lst,              \* divide: the list argument
    n,                \* divide: the chunk size argument
    chunks,           \* divide: the chunks yielded so far, in order
    price,            \* price_conversion: the argument
    converted         \* price_conversion: the result

vars == <<pc, products, remnants_file, last_id, product_list, offer_ids,
          given_offer_ids, watch_remnants, stocks, prices, pending,
          uploaded_stocks, uploaded_prices, log, outcome, printed,
          lst, n, chunks, price, converted>>

---------------------------------------------------------------------------
(* Bounds of the model.                                                    *)

MaxRecords == 2
MaxSkus == 3
MaxLen == 5
MaxChunk == 4
MaxPriceLen == 4
MaxProducts == 60
MaxMainRecords == 1
MaxBase == 2

---------------------------------------------------------------------------
(* Text.                                                                   *)

DigitChars == <<"0", "1", "2", "3", "4", "5", "6", "7", "8", "9">>

IsDigit(c) == \E i \in 1..10 : DigitChars[i] = c

DigitVal(c) == (CHOOSE i \in 1..10 : DigitChars[i] = c) - 1

\* All sequences over S of length at most k.
SeqsUpTo(S, k) == UNION {[1..m -> S] : m \in 0..k}

\* Python str(int): the decimal numeral of i.
RECURSIVE Decimal(_)
Decimal(i) ==
    IF i < 0 THEN <<"-">> \o Decimal(-i)
    ELSE IF i < 10 THEN <<DigitChars[i + 1]>>
    ELSE Append(Decimal(i \div 10), DigitChars[(i % 10) + 1])

\* Python str(x) of a cell value.
str(cell) == IF cell.t = "int" THEN Decimal(cell.v) ELSE cell.v

\* Python int(text) on the texts of the model: a text of ASCII digits with
\* an optional sign has its value, any other text raises ValueError.
IsNumeral(text) ==
    LET body == IF Len(text) > 0 /\ text[1] \in {"-", "+"} THEN Tail(text) ELSE text
    IN  Len(body) > 0 /\ \A i \in 1..Len(body) : IsDigit(body[i])

RECURSIVE DigitsValue(_)
DigitsValue(body) ==
    IF Len(body) = 0 THEN 0
    ELSE 10 * DigitsValue(SubSeq(body, 1, Len(body) - 1)) + DigitVal(body[Len(body)])

ParseInt(text) ==
    IF text[1] = "-" THEN 0 - DigitsValue(Tail(text))
    ELSE IF text[1] = "+" THEN DigitsValue(Tail(text))
    ELSE DigitsValue(text)

\* Python int(x) of a cell value: [raised, value].
int(cell) ==
    IF cell.t = "int" THEN [raised |-> FALSE, value |-> cell.v]
    ELSE IF IsNumeral(cell.v) THEN [raised |-> FALSE, value |-> ParseInt(cell.v)]
    ELSE [raised |-> TRUE, value |-> 0]

StrCell(text) == [t |-> "str", v |-> text]
IntCell(i) == [t |-> "int", v |-> i]

---------------------------------------------------------------------------
(* Lists.                                                                  *)

\* Python `x in l`.
In(x, l) == \E i \in 1..Len(l) : l[i] = x

\* Python l.remove(x): l without its first occurrence of x (x is in l).
Remove(l, x) ==
    LET k == CHOOSE i \in 1..Len(l) : l[i] = x /\ \A j \in 1..(i - 1) : l[j] # x
    IN  SubSeq(l, 1, k - 1) \o SubSeq(l, k + 1, Len(l))


\* Python range(start, stop, step) for step > 0, as the list of its values.
range(start, stop, step) ==
    LET count == IF stop > start THEN (stop - start + step - 1) \div step ELSE 0
    IN  [k \in 1..count |-> start + (k - 1) * step]

\* Python l[i:j] for 0 <= i <= j: the elements at the 0-based places i..j-1
\* that exist.
Slice(l, i, j) == SubSeq(l, i + 1, IF j < Len(l) THEN j ELSE Len(l))

---------------------------------------------------------------------------
(* The marketplace, as get_product_list sees it: a server that holds       *)
(* `products`, reports their number as total and returns, for the cursor   *)
(* it is sent, the next `limit` products and the cursor after them.  The   *)
(* cursor is the decimal numeral of the number of products already         *)
(* returned; the empty text stands for none.                               *)

CursorPlace(cursor) == IF cursor = <<>> THEN 0 ELSE DigitsValue(cursor)

ServerListPage(held, cursor, limit) ==
    LET from == CursorPlace(cursor)
        items == Slice(held, from, from + limit)
    IN  [items |-> items,
         total |-> Len(held),
         last_id |-> Decimal(from + Len(items))]

\* The "limit" of the payload of get_product_list.
ListLimit == 1000

\* get_product_list(last_id, ...): the "result" object of the response.
get_product_list(cursor) == ServerListPage(products, cursor, ListLimit)

\* loop_done that also holds when the total exceeds the accumulated count.
loop_done_early(total, plist) == total >= Len(plist)

\* get_offer_ids, line 64: the loop ends when the reported total equals the
\* accumulated count.
loop_done(total, plist) == total = Len(plist)

\* get_offer_ids, lines 66-69: the offer_id of every accumulated product.
collect_offer_ids(plist) == [k \in 1..Len(plist) |-> plist[k].offer_id]

---------------------------------------------------------------------------
(* create_stocks.                                                          *)

\* stock_of without the branch of line 204: a quantity of "1" keeps its value.
stock_of_one_kept(watch) ==
    LET count == str(watch.Kolichestvo)
    IN  IF count = <<">", "1", "0">> THEN [raised |-> FALSE, value |-> 100]
        ELSE int(watch.Kolichestvo)

\* Lines 201-207: the stock of one matched record, [raised, value].
stock_of(watch) ==
    LET count == str(watch.Kolichestvo)
    IN  IF count = <<">", "1", "0">> THEN [raised |-> FALSE, value |-> 100]
        ELSE IF count = <<"1">> THEN [raised |-> FALSE, value |-> 0]
        ELSE int(watch.Kolichestvo)

\* Line 200: whether the record's code is in the list.
is_listed(watch, ids) == In(str(watch.Kod), ids)

\* without_matched with line 209 left out: the list stays as it is.
without_matched_kept(ids, watch) == ids

\* Line 209: the list after the record's code is removed from it.
without_matched(ids, watch) == Remove(ids, str(watch.Kod))

\* Lines 210-211: a stock update of 0 for every SKU left in the list.
rest_stocks(ids) == [k \in 1..Len(ids) |-> [offer_id |-> ids[k], stock |-> 0]]

\* Lines 199-212, from record i on, with the stocks built so far and the
\* list as it is now: [raised, stocks, offer_ids]; offer_ids is the list
\* object as the call leaves it.
RECURSIVE create_stocks_from(_, _, _, _)
create_stocks_from(remnants, i, acc, ids) ==
    IF i > Len(remnants)
    THEN [raised |-> FALSE, stocks |-> acc \o rest_stocks(ids), offer_ids |-> ids]
    ELSE LET watch == remnants[i] IN
         IF ~is_listed(watch, ids)
         THEN create_stocks_from(remnants, i + 1, acc, ids)
         ELSE LET stock == stock_of(watch) IN
              IF stock.raised
              THEN [raised |-> TRUE, stocks |-> <<>>, offer_ids |-> ids]
              ELSE create_stocks_from(
                       remnants, i + 1,
                       Append(acc, [offer_id |-> str(watch.Kod), stock |-> stock.value]),
                       without_matched(ids, watch))

create_stocks(remnants, ids) == create_stocks_from(remnants, 1, <<>>, ids)

---------------------------------------------------------------------------
(* price_conversion and create_prices.                                     *)

\* Python text.split(sep) for a one-character sep: the pieces between the
\* occurrences of sep, in order.
RECURSIVE split(_, _)
split(text, sep) ==
    IF ~In(sep, text) THEN <<text>>
    ELSE LET k == CHOOSE i \in 1..Len(text) :
                      text[i] = sep /\ \A j \in 1..(i - 1) : text[j] # sep
         IN  <<SubSeq(text, 1, k - 1)>> \o split(SubSeq(text, k + 1, Len(text)), sep)

\* Python re.sub("[^0-9]", "", text): every character that is no ASCII digit
\* is replaced by the empty text.
RECURSIVE re_sub_non_digits(_)
re_sub_non_digits(text) ==
    IF Len(text) = 0 THEN <<>>
    ELSE (IF IsDigit(Head(text)) THEN <<Head(text)>> ELSE <<>>)
         \o re_sub_non_digits(Tail(text))

\* price_conversion without the split: the digits of the whole text.
price_conversion_unsplit(text) == re_sub_non_digits(text)

\* price_conversion on a text.
price_conversion_text(text) == re_sub_non_digits(split(text, ".")[1])

\* price_conversion on a cell value: a value that is no text has no split
\* method (AttributeError): [raised, value].
price_conversion(cell) ==
    IF cell.t = "str"
    THEN [raised |-> FALSE, value |-> price_conversion_text(cell.v)]
    ELSE [raised |-> TRUE, value |-> <<>>]

\* Lines 260-266.
price_of(watch, value) ==
    [auto_action_enabled |-> "UNKNOWN",
     currency_code |-> "RUB",
     offer_id |-> str(watch.Kod),
     old_price |-> "0",
     price |-> value]

\* Lines 257-268: [raised, prices].
RECURSIVE create_prices_from(_, _, _, _)
create_prices_from(remnants, i, acc, ids) ==
    IF i > Len(remnants) THEN [raised |-> FALSE, prices |-> acc]
    ELSE LET watch == remnants[i] IN
         IF ~In(str(watch.Kod), ids)
         THEN create_prices_from(remnants, i + 1, acc, ids)
         ELSE LET conv == price_conversion(watch.Tsena) IN
              IF conv.raised THEN [raised |-> TRUE, prices |-> <<>>]
              ELSE create_prices_from(remnants, i + 1,
                                      Append(acc, price_of(watch, conv.value)), ids)

create_prices(remnants, ids) == create_prices_from(remnants, 1, <<>>, ids)

---------------------------------------------------------------------------
(* divide.                                                                 *)

\* divide_range that stops one element early.
divide_range_short(l, size) == range(0, Len(l) - 1, size)

\* The values of i the loop of divide runs through.
divide_range(l, size) == range(0, Len(l), size)

\* The k-th chunk divide yields.
divide_chunk(l, size, k) ==
    LET i == divide_range(l, size)[k] IN Slice(l, i, i + size)

\* list(divide(l, size)): the generator run to its end.
list_divide(l, size) ==
    [k \in 1..Len(divide_range(l, size)) |-> divide_chunk(l, size, k)]

\* The for loops of main, lines 375 and 379: the batches left after one is sent.
rest_after_send_none(batches) == <<>>

rest_after_send(batches) == Tail(batches)

\* after_exception that leaves main where the exception was raised.
after_exception_retry(at) == at

\* main, lines 381-386: every except clause prints and main ends.
after_exception(at) == "done"

\* What the except clause of an exception kind prints.
message(kind) ==
    IF kind = "ReadTimeout" THEN "timeout"
    ELSE IF kind = "ConnectionError" THEN "connection"
    ELSE "ERROR_2"

\* The chunk sizes of main.
StockChunk == 100
PriceChunk == 900

---------------------------------------------------------------------------
(* The inputs of the model.                                                *)

T123 == <<"1", "2", "3">>
T124 == <<"1", "2", "4">>
T125 == <<"1", "2", "5">>
T126 == <<"1", "2", "6">>
TOver10 == <<">", "1", "0">>
TPrice == <<"5", "0", "0", "0", ".", "0", "0">>

\* The SKUs of the lists, the code cells of the records (one SKU arrives as
\* a text cell and one as a numeric cell) and their quantity cells.
SkuTexts == {T123, T124}
CodeCells == {StrCell(T123), IntCell(124)}
QuantityCells ==
    {StrCell(TOver10), StrCell(<<"1">>), StrCell(<<"5">>), StrCell(<<"0", "1">>),
     StrCell(<<"x">>), IntCell(1)}

Record(code, quantity, cost) == [Kod |-> code, Kolichestvo |-> quantity, Tsena |-> cost]

StockRecords == {Record(c, q, StrCell(TPrice)) : c \in CodeCells, q \in QuantityCells}

\* The example of the docstring of create_stocks, lines 184-189.
ExampleRemnants ==
    <<Record(StrCell(T123), StrCell(TOver10), StrCell(TPrice)),
      Record(StrCell(T124), StrCell(<<"1">>), StrCell(TPrice)),
      Record(StrCell(T125), StrCell(<<"5">>), StrCell(TPrice))>>
ExampleOfferIds == <<T123, T124, T126>>

---------------------------------------------------------------------------
(* A call of create_stocks.                                                *)

\* The variables a specification does not use.
NoMain ==
    /\ products = <<>> /\ remnants_file = <<>> /\ last_id = <<>>
    /\ product_list = <<>> /\ prices = <<>> /\ pending = <<>>
    /\ uploaded_stocks = <<>> /\ uploaded_prices = <<>> /\ log = <<>>
    /\ outcome = "running" /\ printed = <<>>
NoDivide == lst = <<>> /\ n = 1 /\ chunks = <<>>
NoPrice == price = <<>> /\ converted = <<>>

InitStocks ==
    /\ pc = "call_create_stocks"
    /\ \/ /\ watch_remnants \in SeqsUpTo(StockRecords, MaxRecords)
          /\ offer_ids \in SeqsUpTo(SkuTexts, MaxSkus)
       \/ /\ watch_remnants = ExampleRemnants
          /\ offer_ids = ExampleOfferIds
    /\ given_offer_ids = offer_ids
    /\ stocks = <<>>
    /\ NoMain /\ NoDivide /\ NoPrice

\* stocks = create_stocks(watch_remnants, offer_ids), as upload_stocks and
\* main call it: the list object passed is the caller's own.
CallCreateStocks ==
    /\ pc = "call_create_stocks"
    /\ LET r == create_stocks(watch_remnants, offer_ids) IN
         /\ stocks' = r.stocks
         /\ offer_ids' = r.offer_ids
         /\ pc' = IF r.raised THEN "create_stocks_raised" ELSE "create_stocks_returned"
    /\ UNCHANGED <<products, remnants_file, last_id, product_list, given_offer_ids,
                   watch_remnants, prices, pending, uploaded_stocks, uploaded_prices,
                   log, outcome, printed, lst, n, chunks, price, converted>>

SpecStocks == InitStocks /\ [][CallCreateStocks]_vars

---------------------------------------------------------------------------
(* What the claims about create_stocks speak of.                           *)

\* How often x occurs in l.
Count(l, x) == Cardinality({i \in 1..Len(l) : l[i] = x})

Code(remnants, i) == str(remnants[i].Kod)
QuantityText(remnants, i) == str(remnants[i].Kolichestvo)

\* Record i finds its SKU in the list: the list holds the SKU more often
\* than the records before i carry it.
Matched(remnants, ids, i) ==
    Cardinality({j \in 1..(i - 1) : Code(remnants, j) = Code(remnants, i)})
        < Count(ids, Code(remnants, i))

\* The place of the stock update of a matched record i.
PlaceOf(remnants, ids, i) == Cardinality({j \in 1..i : Matched(remnants, ids, j)})

RECURSIVE Pow10(_)
Pow10(e) == IF e = 0 THEN 1 ELSE 10 * Pow10(e - 1)

\* The value of an unsigned decimal numeral, most significant digit first.
RECURSIVE NumeralValue(_)
NumeralValue(text) ==
    IF Len(text) = 0 THEN 0
    ELSE DigitVal(Head(text)) * Pow10(Len(text) - 1) + NumeralValue(Tail(text))

QuantityPolicy(text) ==
    IF text = TOver10 THEN 100
    ELSE IF text = <<"1">> THEN 0
    ELSE NumeralValue(text)

\* C1: when create_stocks returns, the stock update of every record that
\* found its SKU in the list carries the stock its quantity text alone
\* decides: ">10" gives 100, "1" gives 0, any other numeral its value.
StocksFollowQuantityText ==
    pc = "create_stocks_returned" =>
        \A i \in 1..Len(watch_remnants) :
            Matched(watch_remnants, given_offer_ids, i) =>
                LET k == PlaceOf(watch_remnants, given_offer_ids, i) IN
                    /\ k <= Len(stocks)
                    /\ stocks[k] = [offer_id |-> Code(watch_remnants, i),
                                    stock |-> QuantityPolicy(QuantityText(watch_remnants, i))]

\* A call that returned the stock updates of a record with ">10" and of a
\* record with the numeral "01".
StocksFollowQuantityTextWitness ==
    /\ pc = "create_stocks_returned"
    /\ \E i, j \in 1..Len(watch_remnants) :
          /\ Matched(watch_remnants, given_offer_ids, i)
          /\ Matched(watch_remnants, given_offer_ids, j)
          /\ QuantityText(watch_remnants, i) = TOver10
          /\ QuantityText(watch_remnants, j) = <<"0", "1">>
          /\ \E k \in 1..Len(stocks) : stocks[k].stock = 100
          /\ \E k \in 1..Len(stocks) : stocks[k].stock = 1

\* C2, as amended: when create_stocks returns, every entry of the list it
\* was given has exactly one stock update (a SKU occurs as offer_id as often
\* as it occurs in the list: once for a SKU listed once), and the stock
\* updates of a SKU that no record carries all have stock 0.
EverySkuOnceAndUnmatchedZero ==
    pc = "create_stocks_returned" =>
        /\ \A k \in 1..Len(stocks) : In(stocks[k].offer_id, given_offer_ids)
        /\ \A m \in 1..Len(given_offer_ids) :
              LET sku == given_offer_ids[m] IN
                /\ Count(collect_offer_ids(stocks), sku) = Count(given_offer_ids, sku)
                /\ (\A i \in 1..Len(watch_remnants) : Code(watch_remnants, i) # sku)
                      => \A k \in 1..Len(stocks) :
                             stocks[k].offer_id = sku => stocks[k].stock = 0

\* A call that returned with one SKU matched by a record and another not.
EverySkuOnceAndUnmatchedZeroWitness ==
    /\ pc = "create_stocks_returned"
    /\ \E a, b \in 1..Len(given_offer_ids) :
          /\ \E i \in 1..Len(watch_remnants) : Code(watch_remnants, i) = given_offer_ids[a]
          /\ \A i \in 1..Len(watch_remnants) : Code(watch_remnants, i) # given_offer_ids[b]
          /\ \E k \in 1..Len(stocks) :
                stocks[k].offer_id = given_offer_ids[a] /\ stocks[k].stock # 0

\* C2, as claimed: when create_stocks returns, every SKU of the list it was
\* given occurs exactly once as offer_id, whatever the list, and the stock
\* updates of a SKU that no record carries all have stock 0.
EverySkuExactlyOnce ==
    pc = "create_stocks_returned" =>
        \A m \in 1..Len(given_offer_ids) :
            LET sku == given_offer_ids[m] IN
              /\ Count(collect_offer_ids(stocks), sku) = 1
              /\ (\A i \in 1..Len(watch_remnants) : Code(watch_remnants, i) # sku)
                    => \A k \in 1..Len(stocks) :
                           stocks[k].offer_id = sku => stocks[k].stock = 0

\* C3: on the example of the docstring create_stocks returns the four stock
\* updates the docstring shows, the one of SKU 125 among them.
ExampleReturnsFourUpdates ==
    (/\ pc = "create_stocks_returned"
     /\ watch_remnants = ExampleRemnants
     /\ given_offer_ids = ExampleOfferIds)
        => stocks = <<[offer_id |-> T123, stock |-> 100],
                      [offer_id |-> T124, stock |-> 0],
                      [offer_id |-> T125, stock |-> 5],
                      [offer_id |-> T126, stock |-> 0]>>

\* C9: after create_stocks returns, the list its caller passed holds the
\* SKUs it held before the call, in the same order.
CallerListUnchanged ==
    pc = "create_stocks_returned" => offer_ids = given_offer_ids

---------------------------------------------------------------------------
(* A run of the generator divide(lst, n), one chunk for every next().      *)

Items == {1, 2}
ExampleList == <<1, 2, 3, 4, 5, 6, 7>>

InitDivide ==
    /\ pc = "divide_called"
    /\ lst \in SeqsUpTo(Items, MaxLen) \cup {ExampleList}
    /\ n \in 0..MaxChunk
    /\ chunks = <<>>
    /\ offer_ids = <<>> /\ given_offer_ids = <<>> /\ watch_remnants = <<>>
    /\ stocks = <<>>
    /\ NoMain /\ NoPrice

DivideFrame ==
    UNCHANGED <<products, remnants_file, last_id, product_list, offer_ids,
                given_offer_ids, watch_remnants, stocks, prices, pending,
                uploaded_stocks, uploaded_prices, log, outcome, printed,
                lst, n, price, converted>>

\* range(0, len(lst), 0) raises ValueError at the first next().
DivideRaise ==
    /\ pc = "divide_called"
    /\ n = 0
    /\ pc' = "divide_raised"
    /\ chunks' = chunks
    /\ DivideFrame

\* next(): the loop yields its next chunk.
DivideYield ==
    /\ pc \in {"divide_called", "divide_suspended"}
    /\ n > 0
    /\ Len(chunks) < Len(divide_range(lst, n))
    /\ chunks' = Append(chunks, divide_chunk(lst, n, Len(chunks) + 1))
    /\ pc' = "divide_suspended"
    /\ DivideFrame

\* next(): the loop has ended (StopIteration).
DivideStop ==
    /\ pc \in {"divide_called", "divide_suspended"}
    /\ n > 0
    /\ Len(chunks) = Len(divide_range(lst, n))
    /\ pc' = "divide_exhausted"
    /\ chunks' = chunks
    /\ DivideFrame

SpecDivide == InitDivide /\ [][DivideRaise \/ DivideYield \/ DivideStop]_vars

RECURSIVE Flatten(_)
Flatten(ls) == IF Len(ls) = 0 THEN <<>> ELSE Head(ls) \o Flatten(Tail(ls))

\* C4: for a chunk size of at least 1, the chunks divide has yielded are
\* non-empty, at most n long and, but for the last, exactly n long; joined
\* in the order of their yield they are the list up to where the generator
\* has come and, once it is exhausted, the whole list; there are at most
\* as many chunks as elements, so none for the empty list.
DivideChunksAreTheList ==
    n >= 1 =>
        /\ \A k \in 1..Len(chunks) : Len(chunks[k]) >= 1 /\ Len(chunks[k]) <= n
        /\ \A k \in 1..(Len(chunks) - 1) : Len(chunks[k]) = n
        /\ Len(chunks) <= Len(lst)
        /\ Flatten(chunks) = SubSeq(lst, 1, Len(Flatten(chunks)))
        /\ pc = "divide_exhausted" => Flatten(chunks) = lst
        /\ pc # "divide_raised"

\* The example of the docstring: [1..7] in chunks of 3, the last one shorter.
DivideChunksAreTheListWitness ==
    /\ pc = "divide_exhausted"
    /\ lst = ExampleList /\ n = 3
    /\ chunks = <<<<1, 2, 3>>, <<4, 5, 6>>, <<7>>>>

---------------------------------------------------------------------------
(* A call of price_conversion on a text, and a second one on its result.   *)

PriceChars == {"5", "0", ".", "a", " "}
ExamplePrices ==
    {TPrice, <<"7", "0", "0", "0", ".", "5", "0", " ", "R", "U", "B">>}

InitPrice ==
    /\ pc = "price_called"
    /\ price \in SeqsUpTo(PriceChars, MaxPriceLen) \cup ExamplePrices
    /\ converted = <<>>
    /\ offer_ids = <<>> /\ given_offer_ids = <<>> /\ watch_remnants = <<>>
    /\ stocks = <<>>
    /\ NoMain /\ NoDivide

PriceFrame ==
    UNCHANGED <<products, remnants_file, last_id, product_list, offer_ids,
                given_offer_ids, watch_remnants, stocks, prices, pending,
                uploaded_stocks, uploaded_prices, log, outcome, printed,
                lst, n, chunks>>

ConvertPrice ==
    /\ pc = "price_called"
    /\ converted' = price_conversion_text(price)
    /\ price' = price
    /\ pc' = "price_returned"
    /\ PriceFrame

\* price_conversion applied to the result of the first call; `price` keeps
\* the first result.
ConvertAgain ==
    /\ pc = "price_returned"
    /\ price' = converted
    /\ converted' = price_conversion_text(converted)
    /\ pc' = "price_reconverted"
    /\ PriceFrame

SpecPrice == InitPrice /\ [][ConvertPrice \/ ConvertAgain]_vars

\* The place of the first "." of a text, or one past its end.
FirstDot(text) ==
    IF \E i \in 1..Len(text) : text[i] = "."
    THEN CHOOSE i \in 1..Len(text) : text[i] = "." /\ \A j \in 1..(i - 1) : text[j] # "."
    ELSE Len(text) + 1

DigitsBeforeFirstDot(text) == SelectSeq(SubSeq(text, 1, FirstDot(text) - 1), IsDigit)

\* C5: price_conversion returns the digits that stand before the first "."
\* of its text, in their order, and applied to its own result it returns
\* that result.
PriceIsDigitsBeforeDot ==
    /\ pc = "price_returned" => converted = DigitsBeforeFirstDot(price)
    /\ pc = "price_reconverted" => converted = price

\* "7000.50 RUB" gave "7000", and the second call gave "7000" again.
PriceIsDigitsBeforeDotWitness ==
    /\ pc = "price_reconverted"
    /\ price = <<"7", "0", "0", "0">>
    /\ converted = <<"7", "0", "0", "0">>

---------------------------------------------------------------------------
(* The marketplace's catalogue and the calls of get_offer_ids.             *)

Product(sku, id) == [offer_id |-> sku, product_id |-> id]

\* The SKU of the k-th further product: a numeral no SKU of SkuTexts is.
PadSku(k) == <<"9">> \o Decimal(k)

\* A catalogue that starts with the SKUs of `base` and goes on with `pad`
\* further products.
Catalogue(base, pad) ==
    [k \in 1..(Len(base) + pad) |->
        IF k <= Len(base) THEN Product(base[k], k) ELSE Product(PadSku(k), k)]

Entry(op, cursor, raised) == [op |-> op, last_id |-> cursor, raised |-> raised]

NetworkErrors == {"ReadTimeout", "ConnectionError", "HTTPError"}

\* The except clauses of main take over: lines 381-386.
Handled(op, cursor, kind) ==
    /\ log' = Append(log, Entry(op, cursor, TRUE))
    /\ printed' = Append(printed, message(kind))
    /\ outcome' = "handled"
    /\ pc' = after_exception(pc)

\* One pass of the loop of get_offer_ids, lines 60-65, and, when the loop
\* ends, lines 66-69.
GetProductListReturns ==
    /\ pc = "get_offer_ids"
    /\ LET some_prod == get_product_list(last_id)
           plist == product_list \o some_prod.items
       IN  /\ log' = Append(log, Entry("get_product_list", last_id, FALSE))
           /\ product_list' = plist
           /\ last_id' = some_prod.last_id
           /\ IF loop_done(some_prod.total, plist)
              THEN /\ offer_ids' = collect_offer_ids(plist)
                   /\ given_offer_ids' = collect_offer_ids(plist)
                   /\ pc' = "download_stock"
              ELSE /\ pc' = "get_offer_ids"
                   /\ UNCHANGED <<offer_ids, given_offer_ids>>
    /\ UNCHANGED <<products, remnants_file, watch_remnants, stocks, prices, pending,
                   uploaded_stocks, uploaded_prices, outcome, printed,
                   lst, n, chunks, price, converted>>

\* The numbers of products around the ends of the first and second page.
PageEdges ==
    {ListLimit - 1, ListLimit, ListLimit + 1, 2 * ListLimit, 2 * ListLimit + 1}

InitPaging ==
    /\ pc = "get_offer_ids"
    /\ \E count \in (0..MaxProducts) \cup PageEdges : products = Catalogue(<<>>, count)
    /\ offer_ids = <<>> /\ given_offer_ids = <<>> /\ watch_remnants = <<>>
    /\ stocks = <<>>
    /\ remnants_file = <<>> /\ last_id = <<>>
    /\ product_list = <<>> /\ prices = <<>> /\ pending = <<>>
    /\ uploaded_stocks = <<>> /\ uploaded_prices = <<>> /\ log = <<>>
    /\ outcome = "running" /\ printed = <<>>
    /\ NoDivide /\ NoPrice

\* get_offer_ids against a marketplace that answers every request: the
\* loop goes on as long as it has not ended.
SpecPaging ==
    InitPaging /\ [][GetProductListReturns]_vars /\ WF_vars(GetProductListReturns)

\* The cursor the marketplace returns for the request logged at place k.
ReturnedCursor(k) == ServerListPage(products, log[k].last_id, ListLimit).last_id

\* The number of products accumulated after k requests.
AccumulatedAfter(k) ==
    IF k * ListLimit < Len(products) THEN k * ListLimit ELSE Len(products)

OfferIdsSafe ==
    /\ \A k \in 1..Len(log) :
          log[k].last_id = IF k = 1 THEN <<>> ELSE ReturnedCursor(k - 1)
    /\ \A k \in 1..(Len(log) - 1) : AccumulatedAfter(k) # Len(products)
    /\ pc = "download_stock" =>
          /\ Len(log) >= 1
          /\ AccumulatedAfter(Len(log)) = Len(products)
          /\ Len(offer_ids) = Len(products)
          /\ \A k \in 1..Len(products) : offer_ids[k] = products[k].offer_id

\* C7: against a marketplace that holds N products, reports N as total
\* and pages by the cursor, get_offer_ids sends with every request the
\* cursor the request before returned (the empty one first), makes no
\* request once the accumulated count equals the total, returns the SKU of
\* every product once and in the marketplace's order, and does return.
OfferIdsCollected == []OfferIdsSafe /\ <>(pc = "download_stock")

\* get_offer_ids returned the SKUs of two full pages and one more product.
OfferIdsCollectedWitness ==
    /\ pc = "download_stock"
    /\ Len(log) = 3
    /\ Len(offer_ids) = 2 * ListLimit + 1
    /\ log[3].last_id = Decimal(2 * ListLimit)

---------------------------------------------------------------------------
(* main.                                                                   *)

\* The remnant records of the runs of main: a price cell is a text or a
\* numeric cell.
MainQuantityCells == {StrCell(<<"5">>), StrCell(<<"x">>)}
MainPriceCells == {StrCell(TPrice), IntCell(5000)}
MainRecords ==
    {Record(c, q, p) : c \in CodeCells, q \in MainQuantityCells, p \in MainPriceCells}

\* The numbers of further products: none, one stock batch, one page.
PadSizes == {0, StockChunk, ListLimit}

InitMain ==
    /\ pc = "env"
    /\ \E base \in SeqsUpTo(SkuTexts, MaxBase), pad \in PadSizes :
          products = Catalogue(base, pad)
    /\ remnants_file \in SeqsUpTo(MainRecords, MaxMainRecords)
    /\ offer_ids = <<>> /\ given_offer_ids = <<>> /\ watch_remnants = <<>>
    /\ stocks = <<>>
    /\ last_id = <<>>
    /\ product_list = <<>> /\ prices = <<>> /\ pending = <<>>
    /\ uploaded_stocks = <<>> /\ uploaded_prices = <<>> /\ log = <<>>
    /\ outcome = "running" /\ printed = <<>>
    /\ NoDivide /\ NoPrice

NotOfMain == <<lst, n, chunks, price, converted>>

\* Lines 367-369: the credentials are read outside the try statement; a
\* missing variable raises out of main.
LoadEnv ==
    /\ pc = "env"
    /\ \/ /\ log' = Append(log, Entry("env", <<>>, FALSE))
          /\ pc' = "get_offer_ids"
          /\ outcome' = outcome
       \/ /\ log' = Append(log, Entry("env", <<>>, TRUE))
          /\ pc' = "done"
          /\ outcome' = "propagated"
    /\ UNCHANGED <<products, remnants_file, last_id, product_list, offer_ids,
                   given_offer_ids, watch_remnants, stocks, prices, pending,
                   uploaded_stocks, uploaded_prices, printed>>
    /\ UNCHANGED NotOfMain

\* Line 371, a request of get_offer_ids that raises.
GetProductListRaises ==
    /\ pc = "get_offer_ids"
    /\ \E kind \in NetworkErrors : Handled("get_product_list", last_id, kind)
    /\ UNCHANGED <<products, remnants_file, last_id, product_list, offer_ids,
                   given_offer_ids, watch_remnants, stocks, prices, pending,
                   uploaded_stocks, uploaded_prices>>
    /\ UNCHANGED NotOfMain

\* Line 372.
DownloadStockReturns ==
    /\ pc = "download_stock"
    /\ watch_remnants' = remnants_file
    /\ log' = Append(log, Entry("download_stock", <<>>, FALSE))
    /\ pc' = "create_stocks"
    /\ UNCHANGED <<products, remnants_file, last_id, product_list, offer_ids,
                   given_offer_ids, stocks, prices, pending,
                   uploaded_stocks, uploaded_prices, outcome, printed>>
    /\ UNCHANGED NotOfMain

DownloadStockRaises ==
    /\ pc = "download_stock"
    /\ \E kind \in NetworkErrors \cup {"BadZipFile"} : Handled("download_stock", <<>>, kind)
    /\ UNCHANGED <<products, remnants_file, last_id, product_list, offer_ids,
                   given_offer_ids, watch_remnants, stocks, prices, pending,
                   uploaded_stocks, uploaded_prices>>
    /\ UNCHANGED NotOfMain

\* Lines 374-375: create_stocks on main's own list, then the list of the
\* stock batches.
CreateStocksReturns ==
    /\ pc = "create_stocks"
    /\ LET r == create_stocks(watch_remnants, offer_ids)
           batches == list_divide(r.stocks, StockChunk)
       IN  /\ ~r.raised
           /\ stocks' = r.stocks
           /\ offer_ids' = r.offer_ids
           /\ pending' = batches
           /\ pc' = IF Len(batches) = 0 THEN "create_prices" ELSE "update_stocks"
    /\ log' = Append(log, Entry("create_stocks", <<>>, FALSE))
    /\ UNCHANGED <<products, remnants_file, last_id, product_list, given_offer_ids,
                   watch_remnants, prices, uploaded_stocks, uploaded_prices,
                   outcome, printed>>
    /\ UNCHANGED NotOfMain

\* Line 374, int() raising ValueError; the list keeps what the call removed.
CreateStocksRaises ==
    /\ pc = "create_stocks"
    /\ LET r == create_stocks(watch_remnants, offer_ids)
       IN  /\ r.raised
           /\ offer_ids' = r.offer_ids
    /\ Handled("create_stocks", <<>>, "ValueError")
    /\ UNCHANGED <<products, remnants_file, last_id, product_list, given_offer_ids,
                   watch_remnants, stocks, prices, pending,
                   uploaded_stocks, uploaded_prices>>
    /\ UNCHANGED NotOfMain

\* Line 376: the marketplace accepts the next stock batch.
UpdateStocksReturns ==
    /\ pc = "update_stocks"
    /\ uploaded_stocks' = Append(uploaded_stocks, Head(pending))
    /\ pending' = rest_after_send(pending)
    /\ pc' = IF Len(pending') = 0 THEN "create_prices" ELSE "update_stocks"
    /\ log' = Append(log, Entry("update_stocks", <<>>, FALSE))
    /\ UNCHANGED <<products, remnants_file, last_id, product_list, offer_ids,
                   given_offer_ids, watch_remnants, stocks, prices,
                   uploaded_prices, outcome, printed>>
    /\ UNCHANGED NotOfMain

UpdateStocksRaises ==
    /\ pc = "update_stocks"
    /\ \E kind \in NetworkErrors : Handled("update_stocks", <<>>, kind)
    /\ UNCHANGED <<products, remnants_file, last_id, product_list, offer_ids,
                   given_offer_ids, watch_remnants, stocks, prices, pending,
                   uploaded_stocks, uploaded_prices>>
    /\ UNCHANGED NotOfMain

\* Lines 378-379: create_prices on the list as create_stocks left it, then
\* the list of the price batches; with no batch main ends.
CreatePricesReturns ==
    /\ pc = "create_prices"
    /\ LET r == create_prices(watch_remnants, offer_ids)
           batches == list_divide(r.prices, PriceChunk)
       IN  /\ ~r.raised
           /\ prices' = r.prices
           /\ pending' = batches
           /\ pc' = IF Len(batches) = 0 THEN "done" ELSE "update_price"
           /\ outcome' = IF Len(batches) = 0 THEN "ok" ELSE outcome
    /\ log' = Append(log, Entry("create_prices", <<>>, FALSE))
    /\ UNCHANGED <<products, remnants_file, last_id, product_list, offer_ids,
                   given_offer_ids, watch_remnants, stocks,
                   uploaded_stocks, uploaded_prices, printed>>
    /\ UNCHANGED NotOfMain

\* Line 378, price_conversion raising AttributeError on a numeric cell.
CreatePricesRaises ==
    /\ pc = "create_prices"
    /\ create_prices(watch_remnants, offer_ids).raised
    /\ Handled("create_prices", <<>>, "AttributeError")
    /\ UNCHANGED <<products, remnants_file, last_id, product_list, offer_ids,
                   given_offer_ids, watch_remnants, stocks, prices, pending,
                   uploaded_stocks, uploaded_prices>>
    /\ UNCHANGED NotOfMain

\* Line 380: the marketplace accepts the next price batch.
UpdatePriceReturns ==
    /\ pc = "update_price"
    /\ uploaded_prices' = Append(uploaded_prices, Head(pending))
    /\ pending' = rest_after_send(pending)
    /\ pc' = IF Len(pending') = 0 THEN "done" ELSE "update_price"
    /\ outcome' = IF Len(pending') = 0 THEN "ok" ELSE outcome
    /\ log' = Append(log, Entry("update_price", <<>>, FALSE))
    /\ UNCHANGED <<products, remnants_file, last_id, product_list, offer_ids,
                   given_offer_ids, watch_remnants, stocks, prices,
                   uploaded_stocks, printed>>
    /\ UNCHANGED NotOfMain

UpdatePriceRaises ==
    /\ pc = "update_price"
    /\ \E kind \in NetworkErrors : Handled("update_price", <<>>, kind)
    /\ UNCHANGED <<products, remnants_file, last_id, product_list, offer_ids,
                   given_offer_ids, watch_remnants, stocks, prices, pending,
                   uploaded_stocks, uploaded_prices>>
    /\ UNCHANGED NotOfMain

NextMain ==
    \/ LoadEnv
    \/ GetProductListReturns
    \/ GetProductListRaises
    \/ DownloadStockReturns
    \/ DownloadStockRaises
    \/ CreateStocksReturns
    \/ CreateStocksRaises
    \/ UpdateStocksReturns
    \/ UpdateStocksRaises
    \/ CreatePricesReturns
    \/ CreatePricesRaises
    \/ UpdatePriceReturns
    \/ UpdatePriceRaises

Spec == InitMain /\ [][NextMain]_vars

---------------------------------------------------------------------------
(* What the claims about main speak of.                                    *)

Ops == {"env", "get_product_list", "download_stock", "create_stocks",
        "update_stocks", "create_prices", "update_price"}

\* The order of the steps as main runs them: the SKU list first.
Rank(op) ==
    CASE op = "env" -> 0
      [] op = "get_product_list" -> 1
      [] op = "download_stock" -> 2
      [] op = "create_stocks" -> 3
      [] op = "update_stocks" -> 4
      [] op = "create_prices" -> 5
      [] op = "update_price" -> 6

\* The order with the remnants file first.
RemnantsFirstRank(op) ==
    CASE op = "download_stock" -> 1
      [] op = "get_product_list" -> 2
      [] OTHER -> Rank(op)

Times(op) == Cardinality({k \in 1..Len(log) : log[k].op = op})

\* What a run that completed has done, but for the order of its steps.
RunIsComplete ==
    /\ Times("get_product_list") >= 1
    /\ Times("download_stock") = 1
    /\ Times("create_stocks") = 1
    /\ Times("create_prices") = 1
    /\ uploaded_stocks = list_divide(stocks, StockChunk)
    /\ Times("update_stocks") = Len(uploaded_stocks)
    /\ uploaded_prices = list_divide(prices, PriceChunk)
    /\ Times("update_price") = Len(uploaded_prices)

\* C6, as amended: in a run of main that completes without an exception
\* the SKU list is fetched before the remnants file, then the stocks are
\* computed, then every stock batch is uploaded, then the prices are
\* computed, then every price batch is uploaded; at no time has a step
\* been started before a step that comes earlier in this order.
StepsInOrder ==
    /\ \A i, j \in 1..Len(log) : i < j => Rank(log[i].op) <= Rank(log[j].op)
    /\ outcome = "ok" => RunIsComplete

\* A completed run with two stock batches and a price batch.
StepsInOrderWitness ==
    /\ outcome = "ok"
    /\ Len(uploaded_stocks) >= 2
    /\ Len(uploaded_prices) >= 1
    /\ Times("get_product_list") >= 1

\* C6, as claimed: in a run that completes without an exception the
\* remnants file is fetched before the SKU list, and the other steps follow
\* in their order.
RemnantsBeforeSkuList ==
    outcome = "ok" =>
        /\ \A i, j \in 1..Len(log) :
              i < j => RemnantsFirstRank(log[i].op) <= RemnantsFirstRank(log[j].op)
        /\ RunIsComplete

IsPrefix(a, b) == Len(a) <= Len(b) /\ a = SubSeq(b, 1, Len(a))

\* A step inside the try statement has raised.
Failed == \E k \in 1..Len(log) : log[k].raised /\ log[k].op # "env"

\* C8: a step of the try statement that raises is the last step of the run
\* (no later step, no further request, no second try of the step), the
\* exception is handled by one except clause and main ends; the batches
\* the marketplace has accepted stay accepted, and the failing step adds
\* none.
FailureEndsRun ==
    /\ [](\A k \in 1..Len(log) :
             (log[k].raised /\ log[k].op # "env") =>
                 /\ k = Len(log)
                 /\ pc = "done"
                 /\ outcome = "handled"
                 /\ Len(printed) = 1)
    /\ [][/\ IsPrefix(uploaded_stocks, uploaded_stocks')
          /\ IsPrefix(uploaded_prices, uploaded_prices')
          /\ (Failed \/ Failed') =>
                /\ uploaded_stocks' = uploaded_stocks
                /\ uploaded_prices' = uploaded_prices]_vars

\* The upload of a price batch failed after stock batches were accepted.
FailureEndsRunWitness ==
    /\ Failed
    /\ log[Len(log)].op = "update_price"
    /\ Len(uploaded_stocks) >= 2
    /\ pc = "done"

\* The codes of the records whose SKU get_offer_ids returned, in order.
ListedCodes ==
    LET Listed(watch) == In(str(watch.Kod), given_offer_ids)
        listed == SelectSeq(watch_remnants, Listed)
    IN  [k \in 1..Len(listed) |-> str(listed[k].Kod)]

\* C10: in a run of main that completes without an exception the price
\* updates uploaded are, in record order, one for every record whose SKU is
\* in the list get_offer_ids returned.
PricesForEveryListedRecord ==
    outcome = "ok" => collect_offer_ids(Flatten(uploaded_prices)) = ListedCodes

====
